---- MODULE Spec2Model ----
(***************************************************************************)
(* Model of models/bert_utils.py: the vocabulary construction              *)
(* (get_token_dict), the sequence encoding (seq2tokens), the hierarchical  *)
(* head construction (generate_bert_with_pretrained_multi_tax) and the     *)
(* class weighting (get_classes_and_weights_multi_tax).                    *)
(*                                                                         *)
(* Strings are sequences of one-character strings, so that ''.join and     *)
(* the k-length strings over an alphabet are computed, not assumed.        *)
(* A Python dict is a sequence of <<key, value>> pairs in insertion order. *)
(* A Python float quotient a / b is the exact fraction [num |-> a,         *)
(* den |-> b]; an optional argument is <<>> (None) or <<value>>.           *)
(***************************************************************************)
EXTENDS Integers, Sequences, FiniteSets, TLC

VARIABLES
    pc,             \* "start": arguments chosen; "done": the function returned; "again": returned from a second call
    alph, k,        \* get_token_dict: its arguments
    token_dict,     \* get_token_dict: the dictionary it returns (seq2tokens' token_dict)
    tok,            \* seq2tokens: arguments, locals and returned arrays
    tax,            \* get_classes_and_weights_multi_tax: arguments and returned mappings
    bert            \* generate_bert_with_pretrained_multi_tax: arguments and the model built

vars == <<pc, alph, k, token_dict, tok, tax, bert>>

\* ------------------------------------------------------------------ bounds

MaxAlph == 3        \* longest alphabet passed to get_token_dict
MaxK == 2           \* largest k passed to get_token_dict

Chars == {"A", "C", "G"}

\* ------------------------------------------------------------- Python dict

None == <<>>
Some(x) == <<x>>

DictKeys(d) == {d[i][1] : i \in DOMAIN d}
DictValues(d) == {d[i][2] : i \in DOMAIN d}
DictHas(d, key) == \E i \in DOMAIN d : d[i][1] = key
DictIndex(d, key) == CHOOSE i \in DOMAIN d : d[i][1] = key
\* d[key] (the key is present)
DictAt(d, key) == d[DictIndex(d, key)][2]
\* d.get(key, default)
DictGet(d, key, default) == IF DictHas(d, key) THEN DictAt(d, key) ELSE default
\* d[key] = value, d.update({key: value}): an existing key keeps its position
DictSet(d, key, value) ==
    IF DictHas(d, key)
    THEN [d EXCEPT ![DictIndex(d, key)] = <<key, value>>]
    ELSE Append(d, <<key, value>>)
\* d.pop(key) (the key is present)
DictPop(d, key) ==
    LET at == DictIndex(d, key)
    IN  SubSeq(d, 1, at - 1) \o SubSeq(d, at + 1, Len(d))
\* d1 == d2 in Python: the same keys with the same values, in any order
DictEq(d1, d2) == {d1[i] : i \in DOMAIN d1} = {d2[i] : i \in DOMAIN d2}

\* ---------------------------------------------------------- get_token_dict

TOKEN_PAD == <<>>
TOKEN_UNK == <<"[", "U", "N", "K", "]">>
TOKEN_CLS == <<"[", "C", "L", "S", "]">>
TOKEN_SEP == <<"[", "S", "E", "P", "]">>
TOKEN_MASK == <<"[", "M", "A", "S", "K", "]">>

\* keras_bert.get_base_dict()
get_base_dict ==
    << <<TOKEN_PAD, 0>>, <<TOKEN_UNK, 1>>, <<TOKEN_CLS, 2>>,
       <<TOKEN_SEP, 3>>, <<TOKEN_MASK, 4>> >>

\* mutant of product: the first position varies fastest
RECURSIVE product_first_fastest(_, _)
product_first_fastest(pool, repeat) ==
    IF repeat = 0 THEN << <<>> >>
    ELSE LET result == product_first_fastest(pool, repeat - 1)
             n == Len(pool)
         IN  [i \in 1..(Len(result) * n) |->
                 <<pool[((i - 1) % n) + 1]>> \o result[((i - 1) \div n) + 1]]

\* [''.join(_) for _ in itertools.product(pool, repeat=repeat)]:
\* result = [x + [y] for x in result for y in pool], repeat times
RECURSIVE product(_, _)
product(pool, repeat) ==
    IF repeat = 0 THEN << <<>> >>
    ELSE LET result == product(pool, repeat - 1)
             n == Len(pool)
         IN  [i \in 1..(Len(result) * n) |->
                 Append(result[((i - 1) \div n) + 1], pool[((i - 1) % n) + 1])]

\* the loop of get_token_dict over the words lo..hi, in order, started on
\* the dictionary d: the passes lo..mid, then the passes mid+1..hi. (The
\* test on Len(first) is always true; it has the first half evaluated
\* before the second is entered, which keeps the evaluation shallow.)
RECURSIVE AddWords(_, _, _, _)
AddWords(d, words, lo, hi) ==
    IF lo > hi THEN d
    ELSE IF lo = hi THEN DictSet(d, words[lo], Len(d))
    ELSE LET mid == (lo + hi) \div 2
             first == AddWords(d, words, lo, mid)
         IN  IF Len(first) >= 0 THEN AddWords(first, words, mid + 1, hi) ELSE first

get_token_dict(alph_, k_) ==
    LET words == product(alph_, k_)
    IN  AddWords(get_base_dict, words, 1, Len(words))

RECURSIVE SeqsUpTo(_, _)
SeqsUpTo(S, n) ==
    IF n = 0 THEN {<<>>}
    ELSE LET shorter == SeqsUpTo(S, n - 1)
         IN  shorter \cup {Append(s, x) : s \in {t \in shorter : Len(t) = n - 1}, x \in S}

Alphabets == SeqsUpTo(Chars, MaxAlph)

\* the value of a function's variable in the runs of another function
NoTok == <<>>
NoTax == <<>>
NoBert == <<>>

InitDict ==
    /\ pc = "start"
    /\ alph \in Alphabets
    /\ k \in 0..MaxK
    /\ token_dict = <<>>
    /\ tok = NoTok
    /\ tax = NoTax
    /\ bert = NoBert

GetTokenDict ==
    /\ pc = "start"
    /\ token_dict' = get_token_dict(alph, k)
    /\ pc' = "done"
    /\ UNCHANGED <<alph, k, tok, tax, bert>>

NextDict == GetTokenDict

SpecDict == InitDict /\ [][NextDict]_vars

\* ----------------------------------------------------------------- C3

Range(s) == {s[i] : i \in DOMAIN s}
Distinct(s) == \A i, j \in DOMAIN s : s[i] = s[j] => i = j
IndexOf(s, x) == CHOOSE i \in DOMAIN s : s[i] = x

RECURSIVE Pow(_, _)
Pow(b, e) == IF e = 0 THEN 1 ELSE b * Pow(b, e - 1)

\* position (from 0) of the word w among the k-length strings over a, the
\* last character varying fastest
RECURSIVE Rank(_, _)
Rank(w, a) ==
    IF Len(w) = 0 THEN 0
    ELSE Rank(SubSeq(w, 1, Len(w) - 1), a) * Len(a) + (IndexOf(a, w[Len(w)]) - 1)

KmersOver(a, n) == {w \in SeqsUpTo(Range(a), n) : Len(w) = n}

\* C3: get_token_dict(alph, k), for k >= 1 and an alphabet of distinct
\* characters whose k-length strings are not base tokens, keeps every base
\* token's id, has each of the |alph|^k k-length strings as a key with the
\* id |base| + its position in the enumeration, has no other key, and its
\* ids are exactly 0 .. |base| + |alph|^k - 1 with no id shared. (The
\* returned dictionary is thereby a function of the arguments alone.)
C3_TokenDict ==
    (pc = "done" /\ k >= 1 /\ Distinct(alph)
        /\ KmersOver(alph, k) \cap DictKeys(get_base_dict) = {})
    => /\ \A i \in DOMAIN get_base_dict :
            /\ DictHas(token_dict, get_base_dict[i][1])
            /\ DictAt(token_dict, get_base_dict[i][1]) = get_base_dict[i][2]
       /\ \A w \in KmersOver(alph, k) :
            /\ DictHas(token_dict, w)
            /\ DictAt(token_dict, w) = Len(get_base_dict) + Rank(w, alph)
       /\ DictKeys(token_dict) = DictKeys(get_base_dict) \cup KmersOver(alph, k)
       /\ Len(token_dict) = Len(get_base_dict) + Pow(Len(alph), k)
       /\ DictValues(token_dict) = 0..(Len(token_dict) - 1)
       /\ \A i, j \in DOMAIN token_dict :
            token_dict[i][2] = token_dict[j][2] => i = j

C3_Witness ==
    /\ pc = "done"
    /\ alph = <<"C", "A">> /\ k = 2
    /\ Len(token_dict) = 9
    /\ DictAt(token_dict, <<"A", "C">>) = 7

\* -------------------------------------------------------------- seq2tokens

MaxSeq == 4         \* longest k-mer sequence passed to seq2tokens
MaxLength == 3      \* largest seq_length and max_length passed to seq2tokens

Min(a, b) == IF a < b THEN a ELSE b
Max(a, b) == IF a > b THEN a ELSE b

\* s[lo:hi] of Python: a negative index counts from the end, and both are
\* clamped to the sequence
PySlice(s, lo, hi) ==
    LET n == Len(s)
        norm(x) == IF x < 0 THEN Max(x + n, 0) ELSE Min(x, n)
    IN  IF norm(lo) < norm(hi) THEN SubSeq(s, norm(lo) + 1, norm(hi)) ELSE <<>>

\* [x] * n
Repeat(x, n) == [i \in 1..n |-> x]

\* the alphabet and k of the vocabulary seq2tokens is given
TokAlphabet == <<"A", "C">>
\* the k-mers seq2kmers hands over: two of the vocabulary, one not in it
Kmers == {<<"A">>, <<"C">>, <<"N">>}

\* mutant of TokenId: a word missing from the vocabulary gets the pad id
TokenId_pad_for_unknown(td, word) ==
    IF DictHas(td, word) THEN DictAt(td, word) ELSE DictAt(td, TOKEN_PAD)

\* token_dict[word] if word in token_dict else token_dict['[UNK]']
TokenId(td, word) == IF DictHas(td, word) THEN DictAt(td, word) ELSE DictAt(td, TOKEN_UNK)

\* mutant of StartChoices: any position of the sequence
StartChoices_whole_sequence(seq, seq_length) == 0..Max(Len(seq) - 1, 0)

\* the values random.randint(0, max(len(seq) - seq_length - 1, 0)) can return
StartChoices(seq, seq_length) == 0..Max(Len(seq) - seq_length - 1, 0)

\* the values np.random.choice(seq_len_like) can return
LengthChoices(seq_len_like) == seq_len_like

\* max_length after lines 77-78
DefaultMaxLength(seq_length, max_length) ==
    IF max_length = None THEN seq_length ELSE max_length[1]

\* end of the slice, lines 83-88
WindowEnd(window, start, seq_length) ==
    IF window THEN start + seq_length - 1 ELSE seq_length

\* mutant of PadOrTruncate: pads, never truncates
PadOrTruncate_padding_only(td, indices, max_length) ==
    IF Len(indices) < max_length
    THEN indices \o Repeat(DictAt(td, TOKEN_PAD), max_length - Len(indices))
    ELSE indices

\* lines 93-96
PadOrTruncate(td, indices, max_length) ==
    IF Len(indices) < max_length
    THEN indices \o Repeat(DictAt(td, TOKEN_PAD), max_length - Len(indices))
    ELSE SubSeq(indices, 1, max_length)

\* seq2tokens once seq2kmers has run, with the drawn length and start;
\* the record holds its locals at the return and the two arrays returned
seq2tokens(a, td, drawn, start) ==
    LET max_length == DefaultMaxLength(a.seq_length, a.max_length)
        seq_length == IF a.seq_len_like # None THEN Min(max_length, drawn)
                                                ELSE a.seq_length
        start_ == IF a.window THEN start ELSE 0
        end == WindowEnd(a.window, start_, seq_length)
        words == PySlice(a.seq, start_, end)
        indices == <<DictAt(td, TOKEN_CLS)>> \o
                   [i \in 1..Len(words) |-> TokenId(td, words[i])]
    IN  [args |-> a,
         seq_length |-> seq_length,
         max_length |-> max_length,
         start |-> start_,
         end |-> end,
         words |-> words,
         indices |-> PadOrTruncate(td, indices, max_length),
         segments |-> [i \in 1..max_length |-> 0]]

SeqLenLikes == {None} \cup {Some({n, n + 2}) : n \in 0..MaxLength}

TokArgs ==
    [seq : SeqsUpTo(Kmers, MaxSeq),
     seq_length : 0..MaxLength,
     max_length : {None} \cup {Some(n) : n \in 0..MaxLength},
     window : BOOLEAN,
     seq_len_like : SeqLenLikes]

InitTok ==
    /\ pc = "start"
    /\ alph = TokAlphabet
    /\ k = 1
    /\ token_dict = get_token_dict(TokAlphabet, 1)
    /\ \E a \in TokArgs : tok = [args |-> a]
    /\ tax = NoTax
    /\ bert = NoBert

Seq2Tokens ==
    /\ pc = "start"
    /\ LET a == tok.args
           max_length == DefaultMaxLength(a.seq_length, a.max_length)
       IN  \E drawn \in (IF a.seq_len_like = None THEN {a.seq_length}
                                                  ELSE LengthChoices(a.seq_len_like[1])) :
             LET seq_length == IF a.seq_len_like # None THEN Min(max_length, drawn)
                                                     ELSE a.seq_length
             IN  \E start \in (IF a.window THEN StartChoices(a.seq, seq_length) ELSE {0}) :
                    tok' = seq2tokens(a, token_dict, drawn, start)
    /\ pc' = "done"
    /\ UNCHANGED <<alph, k, token_dict, tax, bert>>

NextTok == Seq2Tokens

SpecTok == InitTok /\ [][NextTok]_vars

\* -------------------------------------------------------------- C1

\* C1: seq2tokens returns two arrays of length exactly max_length, where
\* max_length is seq_length when not given, and the segment array is all
\* zeros, for every k-mer sequence, window mode, start and drawn length.
C1_FixedLength ==
    pc = "done"
    => LET a == tok.args
           width == IF a.max_length = None THEN a.seq_length ELSE a.max_length[1]
       IN  /\ Len(tok.indices) = width
           /\ Len(tok.segments) = width
           /\ \A i \in DOMAIN tok.segments : tok.segments[i] = 0

C1_Witness ==
    /\ pc = "done"
    /\ tok.args.max_length = None
    /\ tok.args.seq_len_like # None
    /\ tok.args.window
    /\ tok.seq_length < tok.args.seq_length
    /\ Len(tok.args.seq) = MaxSeq
    /\ Len(tok.indices) = MaxLength
\* -------------------------------------------------------------- C2

\* C2: the index array is the first max_length elements of: the id of
\* '[CLS]', then for each k-mer of the selected window, in order, its id if
\* it is a key of token_dict and the id of '[UNK]' otherwise, then the id of
\* '' repeated; so position 0 is '[CLS]' when max_length >= 1 and pad ids
\* form a trailing suffix.
C2_IndexLayout ==
    pc = "done"
    => /\ \A i \in 1..tok.max_length :
            tok.indices[i] =
                IF i = 1 THEN DictAt(token_dict, TOKEN_CLS)
                ELSE IF i - 1 <= Len(tok.words)
                     THEN IF tok.words[i - 1] \in DictKeys(token_dict)
                          THEN DictAt(token_dict, tok.words[i - 1])
                          ELSE DictAt(token_dict, TOKEN_UNK)
                     ELSE DictAt(token_dict, TOKEN_PAD)
       /\ \A i, j \in DOMAIN tok.indices :
            (i < j /\ tok.indices[i] = DictAt(token_dict, TOKEN_PAD))
                => tok.indices[j] = DictAt(token_dict, TOKEN_PAD)

C2_Witness ==
    /\ pc = "done"
    /\ tok.max_length = 3
    /\ tok.words = << <<"N">> >>
    /\ tok.indices = <<2, 1, 0>>

\* -------------------------------------------------------------- C9

NonPadding(td, indices) ==
    Cardinality({i \in DOMAIN indices : indices[i] # DictAt(td, TOKEN_PAD)})

\* C9 (as claimed; the code violates it): in both window modes, for every
\* seq_length with 0 <= seq_length <= max_length, the index array holds at
\* most seq_length non-padding tokens, '[CLS]' included.
C9_AtMostSeqLength ==
    (pc = "done" /\ 0 <= tok.seq_length /\ tok.seq_length <= tok.max_length)
    => NonPadding(token_dict, tok.indices) <= tok.seq_length

\* -------------------------------------------------------------- C10

\* C10: with window=True and seq_length >= 1 the start lies in
\* 0 .. max(len(seq) - seq_length - 1, 0) and the window is the contiguous
\* run of the sequence from start, inside the sequence; when the sequence
\* has at least seq_length - 1 k-mers the window holds exactly
\* seq_length - 1 of them, and then with max_length = seq_length the output
\* holds no pad token.
C10_WindowInside ==
    (pc = "done" /\ tok.args.window /\ tok.seq_length >= 1)
    => LET n == Len(tok.args.seq)
           room == IF n - tok.seq_length - 1 > 0 THEN n - tok.seq_length - 1 ELSE 0
       IN  /\ 0 <= tok.start /\ tok.start <= room
           /\ tok.start + Len(tok.words) <= n
           /\ \A i \in DOMAIN tok.words : tok.words[i] = tok.args.seq[tok.start + i]
           /\ n >= tok.seq_length - 1
                => /\ Len(tok.words) = tok.seq_length - 1
                   /\ tok.max_length = tok.seq_length
                        => \A i \in DOMAIN tok.indices :
                                tok.indices[i] # DictAt(token_dict, TOKEN_PAD)

C10_Witness ==
    /\ pc = "done"
    /\ tok.args.window
    /\ tok.seq_length = 2 /\ tok.max_length = 2
    /\ tok.start = 1
    /\ tok.args.seq = << <<"A">>, <<"C">>, <<"N">>, <<"A">> >>
    /\ tok.words = << <<"C">> >>
    /\ tok.indices = <<2, 6>>
\* ---------------------------------------- get_classes_and_weights_multi_tax

MaxEntries == 4     \* longest species_list
MaxThr == 3         \* largest unknown_thr

RANKS == <<"superkingdom", "kingdom", "family">>

Taxids == {9606, 562, 4932, 1423}

\* TaxidLineage().get_ranks(taxid, ranks=[...])[rank][1]: the name of the
\* taxid's ancestor at the rank, 'unknown' where the lineage has none
get_ranks(taxid, rank) ==
    CASE taxid = 9606 -> [superkingdom |-> "Eukaryota", kingdom |-> "Metazoa", family |-> "Hominidae"][rank]
      [] taxid = 562  -> [superkingdom |-> "Bacteria", kingdom |-> "unknown", family |-> "Enterobacteriaceae"][rank]
      [] taxid = 4932 -> [superkingdom |-> "Eukaryota", kingdom |-> "Fungi", family |-> "unknown"][rank]
      [] taxid = 1423 -> [superkingdom |-> "Bacteria", kingdom |-> "unknown", family |-> "Bacillaceae"][rank]

\* a / b of Python on numbers: the quotient, and ZeroDivisionError when b = 0
Div(a, b) == [num |-> a, den |-> b]
ZeroDivision(w) == w.den = 0

\* the first loop (lines 146-154) for one rank, from the i-th taxid on
RECURSIVE Tally(_, _, _, _)
Tally(d, species_list, i, rank) ==
    IF i > Len(species_list) THEN d
    ELSE LET name == get_ranks(species_list[i], rank)
             num_same == DictGet(d, name, 0) + 1
         IN  Tally(DictSet(d, name, num_same), species_list, i + 1, rank)

\* mutant of Collapse: the threshold is inclusive
RECURSIVE Collapse_inclusive(_, _, _, _, _)
Collapse_inclusive(st, dict_, i, unknown_thr, num_entries) ==
    IF i > Len(dict_) THEN st
    ELSE LET key == dict_[i][1]
             value == dict_[i][2]
         IN  IF value <= unknown_thr
             THEN Collapse_inclusive([st EXCEPT !.unknown = @ + value,
                                                !.classes_tax_i = DictPop(@, key)],
                                     dict_, i + 1, unknown_thr, num_entries)
             ELSE Collapse_inclusive([st EXCEPT !.weight_classes_tax_i =
                                                    DictSet(@, key, Div(num_entries, value))],
                                     dict_, i + 1, unknown_thr, num_entries)

\* mutant of Collapse: the item after a popped one is skipped
RECURSIVE Collapse_skipping(_, _, _, _, _)
Collapse_skipping(st, dict_, i, unknown_thr, num_entries) ==
    IF i > Len(dict_) THEN st
    ELSE LET key == dict_[i][1]
             value == dict_[i][2]
         IN  IF value < unknown_thr
             THEN Collapse_skipping([st EXCEPT !.unknown = @ + value,
                                               !.classes_tax_i = DictPop(@, key)],
                                    dict_, i + 2, unknown_thr, num_entries)
             ELSE Collapse_skipping([st EXCEPT !.weight_classes_tax_i =
                                                   DictSet(@, key, Div(num_entries, value))],
                                    dict_, i + 1, unknown_thr, num_entries)

\* the inner loop (lines 161-167) over dict_.items(), from its i-th item on
RECURSIVE Collapse(_, _, _, _, _)
Collapse(st, dict_, i, unknown_thr, num_entries) ==
    IF i > Len(dict_) THEN st
    ELSE LET key == dict_[i][1]
             value == dict_[i][2]
         IN  IF value < unknown_thr
             THEN Collapse([st EXCEPT !.unknown = @ + value,
                                      !.classes_tax_i = DictPop(@, key)],
                           dict_, i + 1, unknown_thr, num_entries)
             ELSE Collapse([st EXCEPT !.weight_classes_tax_i =
                                          DictSet(@, key, Div(num_entries, value))],
                           dict_, i + 1, unknown_thr, num_entries)

\* mutant of UnknownTotal: a retained class named 'unknown' is overwritten
UnknownTotal_overwriting(unknown, classes_tax_i) == unknown

\* line 169: unknown += classes_tax_i.get("unknown", 0)
UnknownTotal(unknown, classes_tax_i) == unknown + DictGet(classes_tax_i, "unknown", 0)

\* mutant of UnknownWeight: no guard against an empty bucket
UnknownWeight_unguarded(num_entries, unknown) == Div(num_entries, unknown)

\* line 173: weight = num_entries/unknown if unknown != 0 else 1
UnknownWeight(num_entries, unknown) ==
    IF unknown # 0 THEN Div(num_entries, unknown) ELSE Div(1, 1)

\* one pass of the outer loop (lines 158-175) for the tally dict_ of a rank
RankClasses(dict_, unknown_thr, num_entries) ==
    LET st == Collapse([classes_tax_i |-> dict_, unknown |-> 0,
                        weight_classes_tax_i |-> <<>>],
                       dict_, 1, unknown_thr, num_entries)
        unknown == UnknownTotal(st.unknown, st.classes_tax_i)
    IN  [classes_tax_i |-> DictSet(st.classes_tax_i, "unknown", unknown),
         weight_classes_tax_i |->
            DictSet(st.weight_classes_tax_i, "unknown", UnknownWeight(num_entries, unknown))]

\* the function: its arguments, the two mappings returned, and whether a
\* division by zero was met on the way
get_classes_and_weights_multi_tax(species_list, unknown_thr) ==
    LET num_entries == Len(species_list)
        per == [i \in 1..Len(RANKS) |->
                   RankClasses(Tally(<<>>, species_list, 1, RANKS[i]),
                               unknown_thr, num_entries)]
        weight_classes == [i \in 1..Len(RANKS) |-> <<RANKS[i], per[i].weight_classes_tax_i>>]
    IN  [species_list |-> species_list,
         unknown_thr |-> unknown_thr,
         classes |-> [i \in 1..Len(RANKS) |-> <<RANKS[i], per[i].classes_tax_i>>],
         weight_classes |-> weight_classes,
         raised |-> \E i \in DOMAIN weight_classes :
                       \E j \in DOMAIN weight_classes[i][2] :
                           ZeroDivision(weight_classes[i][2][j][2])]

\* the sequence s with the elements at i and j exchanged
Swap(s, i, j) == [s EXCEPT ![i] = s[j], ![j] = s[i]]

InitTax ==
    /\ pc = "start"
    /\ alph = <<>>
    /\ k = 0
    /\ token_dict = <<>>
    /\ tok = NoTok
    /\ \E l \in SeqsUpTo(Taxids, MaxEntries), t \in (-1)..MaxThr :
          tax = [call |-> [species_list |-> l, unknown_thr |-> t], before |-> None]
    /\ bert = NoBert

GetClassesAndWeights ==
    /\ pc = "start"
    /\ tax' = [call |-> get_classes_and_weights_multi_tax(tax.call.species_list,
                                                          tax.call.unknown_thr),
               before |-> None]
    /\ pc' = "done"
    /\ UNCHANGED <<alph, k, token_dict, tok, bert>>

\* the caller calls again with the same list in another order; the mappings
\* of the call before are kept for comparison
GetClassesAndWeightsReordered ==
    /\ pc \in {"done", "again"}
    /\ \E i, j \in DOMAIN tax.call.species_list :
          /\ i < j
          /\ tax' = [call |-> get_classes_and_weights_multi_tax(
                                  Swap(tax.call.species_list, i, j), tax.call.unknown_thr),
                     before |-> Some(tax.call)]
    /\ pc' = "again"
    /\ UNCHANGED <<alph, k, token_dict, tok, bert>>

NextTax == GetClassesAndWeights \/ GetClassesAndWeightsReordered

SpecTax == InitTax /\ [][NextTax]_vars
\* -------------------------------------------------------------- C4

ClassNames == {get_ranks(t, RANKS[i]) : t \in Taxids, i \in DOMAIN RANKS}

\* the number of entries of the list whose class at the rank is the name
Count(species_list, rank, name) ==
    Cardinality({i \in DOMAIN species_list : get_ranks(species_list[i], rank) = name})

RECURSIVE SumOver(_, _, _)
SumOver(S, species_list, rank) ==
    IF S = {} THEN 0
    ELSE LET name == CHOOSE n \in S : TRUE
         IN  Count(species_list, rank, name) + SumOver(S \ {name}, species_list, rank)

RECURSIVE SumValues(_, _)
SumValues(d, i) == IF i > Len(d) THEN 0 ELSE d[i][2] + SumValues(d, i + 1)

\* C4: at each rank, a class with a tally below unknown_thr is no key of
\* classes[rank] unless it is named 'unknown'; every other class with a
\* tally of at least unknown_thr is a key with its tally; and 'unknown' is
\* a key whose count is the tallies of the collapsed classes plus that of a
\* retained class named 'unknown'.
C4_Collapsed ==
    pc \in {"done", "again"}
    => \A r \in DOMAIN RANKS :
        LET rank == RANKS[r]
            l == tax.call.species_list
            thr == tax.call.unknown_thr
            got == DictAt(tax.call.classes, rank)
            seen == {n \in ClassNames : Count(l, rank, n) >= 1}
            low == {n \in seen : Count(l, rank, n) < thr}
        IN  /\ \A n \in low \ {"unknown"} : ~DictHas(got, n)
            /\ \A n \in (seen \ low) \ {"unknown"} :
                    DictHas(got, n) /\ DictAt(got, n) = Count(l, rank, n)
            /\ DictKeys(got) \subseteq seen \cup {"unknown"}
            /\ DictHas(got, "unknown")
            /\ DictAt(got, "unknown") =
                    SumOver(low, l, rank)
                    + (IF "unknown" \in seen \ low THEN Count(l, rank, "unknown") ELSE 0)

C4_Witness ==
    /\ pc = "done"
    /\ tax.call.species_list = <<562, 562, 9606, 4932>>
    /\ tax.call.unknown_thr = 2
    /\ DictEq(DictAt(tax.call.classes, "kingdom"), << <<"unknown", 4>> >>)
    /\ DictEq(DictAt(tax.call.classes, "superkingdom"),
              << <<"Bacteria", 2>>, <<"Eukaryota", 2>>, <<"unknown", 0>> >>)

\* -------------------------------------------------------------- C5

\* C5: at each rank the counts of classes[rank], 'unknown' included, add
\* up to len(species_list): no entry is lost or counted twice.
C5_CountsAddUp ==
    pc \in {"done", "again"}
    => \A r \in DOMAIN RANKS :
            SumValues(DictAt(tax.call.classes, RANKS[r]), 1) = Len(tax.call.species_list)

\* a class named 'unknown' is retained at the kingdom rank and another
\* class is collapsed into it
C5_Witness ==
    /\ pc = "done"
    /\ tax.call.species_list = <<562, 1423, 9606, 4932>>
    /\ tax.call.unknown_thr = 2
    /\ DictAt(tax.call.classes, "kingdom") = << <<"unknown", 4>> >>

\* -------------------------------------------------------------- C6

C7_OrderInsensitive ==
    pc = "again"
    => \A r \in DOMAIN RANKS :
            /\ DictEq(DictAt(tax.call.classes, RANKS[r]),
                      DictAt(tax.before[1].classes, RANKS[r]))
            /\ DictEq(DictAt(tax.call.weight_classes, RANKS[r]),
                      DictAt(tax.before[1].weight_classes, RANKS[r]))

\* the two calls built their dictionaries in different orders
C7_Witness ==
    /\ pc = "again"
    /\ tax.call.species_list # tax.before[1].species_list
    /\ tax.call.unknown_thr = 2
    /\ DictAt(tax.call.classes, "family") # DictAt(tax.before[1].classes, "family")
    /\ DictAt(tax.call.weight_classes, "superkingdom")
         # DictAt(tax.before[1].weight_classes, "superkingdom")
    /\ Len(DictAt(tax.call.weight_classes, "superkingdom")) = 3
\* --------------------------------- generate_bert_with_pretrained_multi_tax

MaxUnits == 3       \* largest width of the NSP-Dense output
MaxClasses == 3     \* largest number of classes of a rank

\* A tensor of the functional API: the layer that outputs it, the layer's
\* kind and activation, the tensors it reads, and its width (last axis).
Tensor(name, op, activation, inbound, width) ==
    [name |-> name, op |-> op, activation |-> activation,
     inbound |-> inbound, width |-> width]

\* keras.layers.Dense(units, activation=activation, name=name)(x)
Dense(units, activation, name, x) == Tensor(name, "Dense", activation, <<x>>, units)

RECURSIVE SumWidths(_, _)
SumWidths(xs, i) == IF i > Len(xs) THEN 0 ELSE xs[i].width + SumWidths(xs, i + 1)

\* keras.layers.concatenate(xs), the n-th Concatenate layer of the session
concatenate(xs, n) ==
    Tensor(<<"concatenate", n>>, "Concatenate", "", xs, SumWidths(xs, 1))

\* the inputs of the checkpoint's model: with and without the training input
PretrainedInputs ==
    { <<"Input-Token", "Input-Segment">>,
      <<"Input-Token", "Input-Segment", "Input-Masked">> }

\* keras.models.load_model(pretrained_path, ...): its inputs and its
\* layer NSP-Dense, of the given width
load_model(inputs, units) ==
    [inputs |-> inputs,
     layers |-> [x \in {"NSP-Dense"} |->
                    Tensor("NSP-Dense", "Dense", "tanh", <<"Extract">>, units)]]

\* mutant of the head construction: the third head reads the first head's
\* prediction
generate_reading_first_head(model, nr_classes) ==
    LET inputs == PySlice(model.inputs, 0, 2)
        nsp_dense_layer == model.layers["NSP-Dense"]
        superkingdoms == nr_classes[1]
        families == nr_classes[2]
        species == nr_classes[3]
        superkingdoms_out == Dense(superkingdoms, "softmax", "superkingdoms_softmax",
                                   nsp_dense_layer)
        families_in == concatenate(<<nsp_dense_layer, superkingdoms_out>>, 1)
        families_out == Dense(families, "softmax", "families_softmax", families_in)
        species_in == concatenate(<<nsp_dense_layer, superkingdoms_out>>, 2)
        species_out == Dense(species, "softmax", "species_softmax", species_in)
        out_layer == concatenate(<<superkingdoms_out, families_out, species_out>>, 3)
    IN  [inputs |-> inputs, outputs |-> out_layer]

\* lines 56-68: keras.Model(inputs=inputs, outputs=out_layer)
generate_bert_with_pretrained_multi_tax(model, nr_classes) ==
    LET inputs == PySlice(model.inputs, 0, 2)
        nsp_dense_layer == model.layers["NSP-Dense"]
        superkingdoms == nr_classes[1]
        families == nr_classes[2]
        species == nr_classes[3]
        superkingdoms_out == Dense(superkingdoms, "softmax", "superkingdoms_softmax",
                                   nsp_dense_layer)
        families_in == concatenate(<<nsp_dense_layer, superkingdoms_out>>, 1)
        families_out == Dense(families, "softmax", "families_softmax", families_in)
        species_in == concatenate(<<nsp_dense_layer, families_out>>, 2)
        species_out == Dense(species, "softmax", "species_softmax", species_in)
        out_layer == concatenate(<<superkingdoms_out, families_out, species_out>>, 3)
    IN  [inputs |-> inputs, outputs |-> out_layer]

InitBert ==
    /\ pc = "start"
    /\ alph = <<>>
    /\ k = 0
    /\ token_dict = <<>>
    /\ tok = NoTok
    /\ tax = NoTax
    /\ \E inputs \in PretrainedInputs, units \in 1..MaxUnits,
          nr_classes \in (1..MaxClasses) \X (1..MaxClasses) \X (1..MaxClasses) :
          bert = [model |-> load_model(inputs, units), nr_classes |-> nr_classes]

GenerateBertMultiTax ==
    /\ pc = "start"
    /\ bert' = [model |-> bert.model,
                nr_classes |-> bert.nr_classes,
                model_fine |-> generate_bert_with_pretrained_multi_tax(bert.model,
                                                                       bert.nr_classes)]
    /\ pc' = "done"
    /\ UNCHANGED <<alph, k, token_dict, tok, tax>>

NextBert == GenerateBertMultiTax

SpecBert == InitBert /\ [][NextBert]_vars

\* -------------------------------------------------------------- C8

\* C8: with nr_classes = (s, f, p) and a trunk of width d the model has
\* three softmax heads: the first reads the trunk and has s outputs, the
\* second reads trunk + first prediction (width d + s) and has f outputs,
\* the third reads trunk + second prediction (width d + f) and has p
\* outputs; the output is the three predictions in that order (width
\* s + f + p) and the inputs are the first two of the pretrained model.
C8_ChainedHeads ==
    pc = "done"
    => LET d == bert.model.layers["NSP-Dense"].width
           s == bert.nr_classes[1]
           f == bert.nr_classes[2]
           p == bert.nr_classes[3]
           out == bert.model_fine.outputs
           head1 == out.inbound[1]
           head2 == out.inbound[2]
           head3 == out.inbound[3]
           IsHead(h, name, units) ==
               /\ h.name = name /\ h.op = "Dense" /\ h.activation = "softmax"
               /\ h.width = units /\ Len(h.inbound) = 1
           TrunkAnd(x, h) ==
               /\ x.op = "Concatenate" /\ Len(x.inbound) = 2
               /\ x.inbound[1].name = "NSP-Dense"
               /\ x.inbound[2] = h
       IN  /\ out.op = "Concatenate" /\ Len(out.inbound) = 3
           /\ out.width = s + f + p
           /\ IsHead(head1, "superkingdoms_softmax", s)
           /\ head1.inbound[1].name = "NSP-Dense" /\ head1.inbound[1].width = d
           /\ IsHead(head2, "families_softmax", f)
           /\ TrunkAnd(head2.inbound[1], head1) /\ head2.inbound[1].width = d + s
           /\ IsHead(head3, "species_softmax", p)
           /\ TrunkAnd(head3.inbound[1], head2) /\ head3.inbound[1].width = d + f
           /\ bert.model_fine.inputs = <<bert.model.inputs[1], bert.model.inputs[2]>>

C8_Witness ==
    /\ pc = "done"
    /\ Len(bert.model.inputs) = 3
    /\ bert.nr_classes = <<1, 2, 3>>
    /\ bert.model.layers["NSP-Dense"].width = 2
    /\ bert.model_fine.outputs.width = 6
    /\ bert.model_fine.outputs.inbound[3].inbound[1].width = 4

====
